---------------------------- MODULE Spec2Model ----------------------------
(***************************************************************************)
(* Semantic Versioning 2.0.0 parser, formatter and comparator of           *)
(* tbx_essential::text::version::semantic, with the string helpers it      *)
(* uses (text::essential, text::token::ascii).                             *)
(*                                                                         *)
(* A text (&str) is a sequence of codepoints; a codepoint is written as a  *)
(* one-character string ("U+00E9" stands for the single codepoint e-acute).*)
(* An unsigned or signed 64-bit value is kept as its decimal numeral: a    *)
(* sequence of digit values 0..9, most significant first, without leading  *)
(* zeros (<<0>> is zero), so that the full 64-bit range is exact.          *)
(***************************************************************************)
EXTENDS Integers, Sequences, FiniteSets, TLC

VARIABLES
    ver,      \* the text handed to the parser (NoText: package_version(None))
    strict,   \* the strictness flag of the call
    pc,       \* which operation has run on ver
    res,      \* the value the operation returned
    dflt,     \* the default (major, minor, patch) handed to parse_or
    out,      \* the Display output of the parsed Version
    res2,     \* the result of parsing out again
    ta, tb, tc,   \* the three texts handed to the comparison
    va, vb, vc,   \* their parse results
    ord,          \* the orderings partial_cmp returned
    arg_text,     \* the text handed to a string helper or to a validator
    arg_start, arg_finish,    \* the indices handed to substring, substring_to_end
    tokens, offset    \* the locals of tokenize_ascii_alpha_num

vars == <<ver, strict, pc, res, dflt, out, res2, ta, tb, tc, va, vb, vc, ord,
          arg_text, arg_start, arg_finish, tokens, offset>>

textVars == <<arg_text, arg_start, arg_finish, tokens, offset>>

---------------------------------------------------------------------------
(* Option and Result *)

None == [some |-> FALSE]
Some(x) == [some |-> TRUE, val |-> x]
unwrap_or(o, d) == IF o.some THEN o.val ELSE d

Ok(x) == [ok |-> TRUE, val |-> x]
\* ParseError { part, reason }; detail is the payload of the reason:
\* the char of InvalidChar, the pattern of NonAsciiAlphaNumString, else empty.
ParseError(part, reason, detail) ==
    [ok |-> FALSE, part |-> part, reason |-> reason, detail |-> detail]

---------------------------------------------------------------------------
(* Characters *)

AsciiDigits == <<"0", "1", "2", "3", "4", "5", "6", "7", "8", "9">>
AsciiUpper == <<"A", "B", "C", "D", "E", "F", "G", "H", "I", "J", "K", "L", "M",
                "N", "O", "P", "Q", "R", "S", "T", "U", "V", "W", "X", "Y", "Z">>
AsciiLower == <<"a", "b", "c", "d", "e", "f", "g", "h", "i", "j", "k", "l", "m",
                "n", "o", "p", "q", "r", "s", "t", "u", "v", "w", "x", "y", "z">>
\* Other ASCII characters, each with its code.
AsciiOther ==
    <<<<" ", 32>>, <<"!", 33>>, <<"#", 35>>, <<"*", 42>>, <<"+", 43>>, <<",", 44>>,
      <<"-", 45>>, <<".", 46>>, <<"/", 47>>, <<":", 58>>, <<"=", 61>>, <<"@", 64>>,
      <<"_", 95>>, <<"~", 126>>>>

Range(s) == {s[i] : i \in 1..Len(s)}
\* The element of a one-element set.  The({e(x) : x \in {v}}) is e(v) with v
\* evaluated once: a `let x = v` of the source.
The(S) == CHOOSE x \in S : TRUE
IndexOf(s, c) == CHOOSE i \in 1..Len(s) : s[i] = c
NonAscii == {"U+00E9"}
Chars ==
    Range(AsciiDigits) \cup Range(AsciiUpper) \cup Range(AsciiLower)
        \cup {p[1] : p \in Range(AsciiOther)} \cup NonAscii

\* The scalar value of a character (the order of str::cmp).
CodePoint ==
    [c \in Chars |->
        IF c \in Range(AsciiDigits) THEN 47 + IndexOf(AsciiDigits, c)
        ELSE IF c \in Range(AsciiUpper) THEN 64 + IndexOf(AsciiUpper, c)
        ELSE IF c \in Range(AsciiLower) THEN 96 + IndexOf(AsciiLower, c)
        ELSE IF c \in NonAscii THEN 233
        ELSE (CHOOSE p \in Range(AsciiOther) : p[1] = c)[2]]

is_ascii_digit(c) == c \in Range(AsciiDigits)
is_ascii_uppercase(c) == c \in Range(AsciiUpper)
is_ascii_lowercase(c) == c \in Range(AsciiLower)
is_ascii_alphanumeric_char(c) ==
    is_ascii_digit(c) \/ is_ascii_uppercase(c) \/ is_ascii_lowercase(c)

\* chars().position(|c| ...): the 0-based index of the first character that
\* satisfies the predicate, given as the set of the characters satisfying it.
position(s, matching) ==
    The({ IF \E i \in 1..Len(t) : t[i] \in m
          THEN Some((CHOOSE i \in 1..Len(t) :
                        t[i] \in m /\ \A j \in 1..(i - 1) : t[j] \notin m) - 1)
          ELSE None :
          t \in {s}, m \in {matching} })

\* chars().skip(n)
skip(s, n) == SubSeq(s, n + 1, Len(s))

\* chars().nth(n)
nth(s, n) == IF n < Len(s) THEN Some(s[n + 1]) ELSE None

---------------------------------------------------------------------------
(* text::essential::StringEssential *)

\* char::len_utf8: the bytes of the encoding of a codepoint (U+00E9 takes two).
len_utf8(c) == IF c \in NonAscii THEN 2 ELSE 1

\* chars().take(n).map(|c| c.len_utf8()).sum(): the byte offset of codepoint n,
\* the byte length of the text when it has fewer than n codepoints.
RECURSIVE byte_offset(_, _)
byte_offset(text, n) ==
    IF n = 0 THEN 0
    ELSE IF Len(text) < n THEN byte_offset(text, Len(text))
    ELSE byte_offset(text, n - 1) + len_utf8(text[n])

\* The number of codepoints that end at byte offset b, None when b is inside
\* the encoding of a codepoint or beyond the text; the scan has passed k
\* codepoints and `at` bytes.
RECURSIVE char_boundary_from(_, _, _, _)
char_boundary_from(text, b, k, at) ==
    IF at = b THEN Some(k)
    ELSE IF b < at \/ k = Len(text) THEN None
    ELSE char_boundary_from(text, b, k + 1, at + len_utf8(text[k + 1]))

char_boundary(text, b) == char_boundary_from(text, b, 0, 0)

\* str::get(s..f) for byte offsets s and f: None unless s <= f and both are
\* character boundaries of the text.
str_get(text, s, f) ==
    The({ IF s <= f /\ ks.some /\ kf.some THEN Some(SubSeq(text, ks.val + 1, kf.val))
          ELSE None :
          ks \in {char_boundary(text, s)}, kf \in {char_boundary(text, f)} })

\* substring taking start and finish for byte offsets.
substring_of_bytes(text, start, finish) ==
    IF finish <= start THEN None
    ELSE IF Len(text) < finish THEN None
    ELSE str_get(text, start, finish)

substring(text, start, finish) ==
    IF finish <= start THEN None
    ELSE The({ IF f <= s \/ Len(text) < finish THEN None ELSE str_get(text, s, f) :
               s \in {byte_offset(text, start)}, f \in {byte_offset(text, finish)} })

\* substring_to_end giving the empty text when start is the length of the text.
substring_to_end_or_empty(text, start) ==
    IF Len(text) < start THEN None
    ELSE Some(SubSeq(text, start + 1, Len(text)))

substring_to_end(text, start) ==
    IF Len(text) <= start THEN None
    ELSE The({ str_get(text, s, f) :
               s \in {byte_offset(text, start)}, f \in {byte_offset(text, Len(text))} })

(* text::token::ascii::AsciiMatcher *)
is_ascii_numeric(text) == \A i \in 1..Len(text) : is_ascii_digit(text[i])

(* text::token::ascii::AsciiTokenizer *)

\* The lengths of the runs of uppercase letters, then of lowercase letters,
\* then of digits, at the beginning of the guarded text.
token_length(reminder_with_guard) ==
    The({ The({ The({ The({ upper + lower + num :
                            num \in {unwrap_or(position(skip(g, upper + lower),
                                                        Chars \ Range(AsciiDigits)), 0)} }) :
                      lower \in {unwrap_or(position(skip(g, upper),
                                                    Chars \ Range(AsciiLower)), 0)} }) :
                upper \in {unwrap_or(position(g, Chars \ Range(AsciiUpper)), 0)} }) :
          g \in {reminder_with_guard} })

\* next_alpha_num_token giving the end of the token from the first
\* alphanumeric character instead of from the beginning of s.
next_alpha_num_token_end_from_start(s) ==
    The({ IF ~start.some THEN None
          ELSE The({ IF ~reminder.some THEN None
                     ELSE The({ The({ IF token.some
                                      THEN Some([start |-> start.val, finish |-> n,
                                                 token |-> token.val])
                                      ELSE Some([start |-> start.val,
                                                 finish |-> start.val + 1,
                                                 token |-> unwrap_or(
                                                     substring(s, start.val, start.val + 1),
                                                     <<>>)]) :
                                      token \in {substring(reminder.val, 0, n)} }) :
                                n \in {token_length(reminder.val \o <<" ">>)} }) :
                     reminder \in {substring_to_end(s, start.val)} }) :
          start \in {position(s, {c \in Chars : is_ascii_alphanumeric_char(c)})} })

\* Some((start, finish, token)), in characters of s, or None.
next_alpha_num_token(s) ==
    The({ IF ~start.some THEN None
          ELSE The({ IF ~reminder.some THEN None
                     ELSE The({ The({ IF token.some
                                      THEN Some([start |-> start.val, finish |-> start.val + n,
                                                 token |-> token.val])
                                      ELSE Some([start |-> start.val,
                                                 finish |-> start.val + 1,
                                                 token |-> unwrap_or(
                                                     substring(s, start.val, start.val + 1),
                                                     <<>>)]) :
                                      token \in {substring(reminder.val, 0, n)} }) :
                                n \in {token_length(reminder.val \o <<" ">>)} }) :
                     reminder \in {substring_to_end(s, start.val)} }) :
          start \in {position(s, {c \in Chars : is_ascii_alphanumeric_char(c)})} })

---------------------------------------------------------------------------
(* 64-bit integers as decimal numerals *)

DigitVal(c) == IndexOf(AsciiDigits, c) - 1
DigitChar(d) == AsciiDigits[d + 1]

\* Drop leading zeros of a non-empty numeral, keeping one digit.
RECURSIVE Normalize(_)
Normalize(n) ==
    IF Len(n) > 1 /\ n[1] = 0 THEN Normalize(Tail(n)) ELSE n

\* Ordering::{Less, Equal, Greater} of two sequences of integers, element by
\* element, the shorter sequence first when it is a prefix of the other.
LexCmp(x, y) ==
    LET m == IF Len(x) < Len(y) THEN Len(x) ELSE Len(y)
        diff == {i \in 1..m : x[i] # y[i]}
    IN  IF diff = {} THEN
            IF Len(x) < Len(y) THEN "Less"
            ELSE IF Len(x) > Len(y) THEN "Greater" ELSE "Equal"
        ELSE LET i == CHOOSE k \in diff : \A j \in diff : k <= j
             IN  IF x[i] < y[i] THEN "Less" ELSE "Greater"

\* Ord::cmp of two normalised numerals.
NumCmp(x, y) ==
    IF Len(x) < Len(y) THEN "Less"
    ELSE IF Len(x) > Len(y) THEN "Greater"
    ELSE LexCmp(x, y)

reverse(o) == IF o = "Less" THEN "Greater" ELSE IF o = "Greater" THEN "Less" ELSE o

U64_MAX == <<1, 8, 4, 4, 6, 7, 4, 4, 0, 7, 3, 7, 0, 9, 5, 5, 1, 6, 1, 5>>
I64_MAX == <<9, 2, 2, 3, 3, 7, 2, 0, 3, 6, 8, 5, 4, 7, 7, 5, 8, 0, 7>>
I64_MIN_MAGNITUDE == <<9, 2, 2, 3, 3, 7, 2, 0, 3, 6, 8, 5, 4, 7, 7, 5, 8, 0, 8>>

Numeral(digits) == Normalize([i \in 1..Len(digits) |-> DigitVal(digits[i])])

\* str::parse::<u64>() without the upper limit.
parse_u64_unlimited(s) ==
    LET digits == IF Len(s) > 0 /\ s[1] = "+" THEN Tail(s) ELSE s
    IN  IF Len(digits) = 0 \/ ~is_ascii_numeric(digits) THEN [ok |-> FALSE]
        ELSE Ok(Numeral(digits))

\* str::parse::<u64>(): an optional '+', then one or more ASCII digits, the
\* value at most u64::MAX.
parse_u64(s) ==
    LET digits == IF Len(s) > 0 /\ s[1] = "+" THEN Tail(s) ELSE s
    IN  IF Len(digits) = 0 \/ ~is_ascii_numeric(digits) THEN [ok |-> FALSE]
        ELSE IF NumCmp(Numeral(digits), U64_MAX) = "Greater" THEN [ok |-> FALSE]
        ELSE Ok(Numeral(digits))

\* str::parse::<i64>(): an optional '+' or '-', then one or more ASCII digits,
\* the value within i64::MIN..i64::MAX.  The value is [neg, mag].
parse_i64(s) ==
    LET signed == Len(s) > 0 /\ s[1] \in {"+", "-"}
        digits == IF signed THEN Tail(s) ELSE s
        neg == signed /\ s[1] = "-"
    IN  IF Len(digits) = 0 \/ ~is_ascii_numeric(digits) THEN [ok |-> FALSE]
        ELSE LET mag == Numeral(digits)
                 limit == IF neg THEN I64_MIN_MAGNITUDE ELSE I64_MAX
             IN  IF NumCmp(mag, limit) = "Greater" THEN [ok |-> FALSE]
                 ELSE Ok([neg |-> neg /\ mag # <<0>>, mag |-> mag])

\* i64::cmp
i64_cmp(x, y) ==
    IF x.neg /\ ~y.neg THEN "Less"
    ELSE IF ~x.neg /\ y.neg THEN "Greater"
    ELSE IF x.neg THEN reverse(NumCmp(x.mag, y.mag))
    ELSE NumCmp(x.mag, y.mag)

\* u64 Display
u64_to_string(n) == [i \in 1..Len(n) |-> DigitChar(n[i])]

\* str::cmp: lexicographic by scalar value.
str_cmp(x, y) ==
    LexCmp([i \in 1..Len(x) |-> CodePoint[x[i]]], [i \in 1..Len(y) |-> CodePoint[y[i]]])

\* str::split("."): the parts between the separators, at least one.
RECURSIVE split(_)
split(s) ==
    LET p == position(s, {"."})
    IN  IF p.some THEN <<SubSeq(s, 1, p.val)>> \o split(skip(s, p.val + 1))
        ELSE <<s>>

\* join(".") leaving the empty parts out.
RECURSIVE join_skipping_empty(_)
join_skipping_empty(parts) ==
    IF Len(parts) = 0 THEN <<>>
    ELSE IF Len(parts[1]) = 0 THEN join_skipping_empty(Tail(parts))
    ELSE IF Len(parts) = 1 THEN parts[1]
    ELSE IF Len(join_skipping_empty(Tail(parts))) = 0 THEN parts[1]
    ELSE parts[1] \o <<".">> \o join_skipping_empty(Tail(parts))

\* [&str]::join(".")
RECURSIVE join(_)
join(parts) ==
    IF Len(parts) = 0 THEN <<>>
    ELSE IF Len(parts) = 1 THEN parts[1]
    ELSE parts[1] \o <<".">> \o join(Tail(parts))

---------------------------------------------------------------------------
(* version::semantic::parse *)

parse_is_non_digit(c) == is_ascii_lowercase(c) \/ is_ascii_uppercase(c) \/ c = "-"

parse_is_identifier_character(c) == is_ascii_digit(c) \/ parse_is_non_digit(c)

\* |c| !parse_is_identifier_character(c)
NotIdentifierCharacter == {c \in Chars : ~parse_is_identifier_character(c)}

\* nth(n).map_or(0, |c| parse_is_non_digit(c).then(|| 1).unwrap_or(0))
NonDigitAt(s, n) ==
    LET c == nth(s, n) IN IF c.some /\ parse_is_non_digit(c.val) THEN 1 ELSE 0

parse_numeric_identifier(pre, strict_) ==
    IF strict_ THEN
        IF pre = <<"0">> THEN Ok(pre)
        ELSE LET f == nth(pre, 0)
             IN  IF ~f.some THEN
                     ParseError("NumericIdentifier", "InvalidPattern", <<>>)
                 ELSE IF f.val = "0" THEN
                     ParseError("NumericIdentifier",
                                "NumberIdentifierShouldNotHaveLeadingZero", <<>>)
                 ELSE IF is_ascii_numeric(pre) THEN Ok(pre)
                 ELSE ParseError("NumericIdentifier", "InvalidChar", <<f.val>>)
    ELSE
        IF is_ascii_numeric(pre) THEN Ok(pre)
        ELSE ParseError("NumericIdentifier", "NonAsciiAlphaNumString", pre)

\* parse_alphanumeric_identifier taking, in strict mode too, a non-digit at any
\* position of a text of identifier characters.
parse_alphanumeric_identifier_any_position(pre, strict_) ==
    IF /\ Len(pre) > 0
       /\ \A i \in 1..Len(pre) : parse_is_identifier_character(pre[i])
       /\ \E i \in 1..Len(pre) : parse_is_non_digit(pre[i])
    THEN Ok(pre)
    ELSE ParseError("AlphaNumericIdentifier", "InvalidPattern", <<>>)

parse_alphanumeric_identifier(pre, strict_) ==
    LET pre_len == Len(pre)
        pre_with_guard == pre \o <<" ">>
        InvalidPattern == ParseError("AlphaNumericIdentifier", "InvalidPattern", <<>>)
    IN  IF strict_ THEN
            LET pos_non_digit == NonDigitAt(pre_with_guard, 0)
            IN  IF pos_non_digit = 1 THEN
                    LET pos_identifier_char ==
                            unwrap_or(position(skip(pre_with_guard, pos_non_digit),
                                               NotIdentifierCharacter), 0)
                    IN  IF pos_non_digit + pos_identifier_char = pre_len
                        THEN Ok(pre) ELSE InvalidPattern
                ELSE
                    LET pos_identifier1 ==
                            unwrap_or(position(pre_with_guard, NotIdentifierCharacter), 0)
                        pos_non_digit1 == NonDigitAt(pre_with_guard, pos_identifier1)
                        pos_identifier2 ==
                            unwrap_or(position(skip(pre_with_guard,
                                                    pos_identifier1 + pos_non_digit1),
                                               NotIdentifierCharacter), 0)
                    IN  IF pos_identifier1 = 0 THEN InvalidPattern
                        ELSE IF pos_identifier1 + pos_non_digit1 = pre_len
                                /\ pos_non_digit1 = 1 THEN Ok(pre)
                        ELSE IF pos_identifier1 + pos_non_digit1 + pos_identifier2 = pre_len
                                /\ pos_non_digit1 = 1 THEN Ok(pre)
                        ELSE InvalidPattern
        ELSE
            LET pos_non_id ==
                    unwrap_or(position(pre_with_guard, NotIdentifierCharacter), 0)
            IN  IF pos_non_id = pre_len THEN Ok(pre)
                ELSE ParseError("AlphaNumericIdentifier", "NonAsciiAlphaNumString", pre)

\* Iterator<Item = Result<&str, ParseError>>::collect::<Result<Vec<&str>, _>>():
\* the values when all are Ok, else the first error.
collect(results) ==
    LET bad == {i \in 1..Len(results) : ~results[i].ok}
    IN  IF bad = {} THEN Ok([i \in 1..Len(results) |-> results[i].val])
        ELSE results[CHOOSE i \in bad : \A j \in bad : i <= j]

---------------------------------------------------------------------------
(* version::semantic::prerelease *)

\* parse_pre_release_identifier taking any digits as a numeric identifier.
parse_pre_release_identifier_any_digits(pre, strict_) ==
    IF parse_alphanumeric_identifier(pre, strict_).ok THEN Ok(pre)
    ELSE IF Len(pre) > 0 /\ is_ascii_numeric(pre) THEN Ok(pre)
    ELSE ParseError("PreRelease", "InvalidPattern", <<>>)

parse_pre_release_identifier(pre, strict_) ==
    IF parse_alphanumeric_identifier(pre, strict_).ok THEN Ok(pre)
    ELSE IF parse_numeric_identifier(pre, strict_).ok THEN Ok(pre)
    ELSE ParseError("PreRelease", "InvalidPattern", <<>>)

parse_pre_release(pre, strict_) ==
    LET parts == split(pre)
    IN  collect([i \in 1..Len(parts) |-> parse_pre_release_identifier(parts[i], strict_)])

\* PreRelease::parse: a PreRelease is the sequence of its identifiers.
PreRelease_parse(pre, strict_) == parse_pre_release(pre, strict_)

PreRelease_fmt(p) == join(p)

PreRelease_eq(x, y) == x = y

---------------------------------------------------------------------------
(* version::semantic::build *)

\* parse_build_identifier holding digits to the numeric identifier grammar.
parse_build_identifier_numeric_grammar(build, strict_) ==
    IF parse_alphanumeric_identifier(build, strict_).ok THEN Ok(build)
    ELSE IF parse_numeric_identifier(build, strict_).ok THEN Ok(build)
    ELSE ParseError("Build", "InvalidPattern", <<>>)

parse_build_identifier(build, strict_) ==
    IF parse_alphanumeric_identifier(build, strict_).ok THEN Ok(build)
    ELSE IF is_ascii_numeric(build) THEN Ok(build)
    ELSE ParseError("Build", "InvalidPattern", <<>>)

parse_build(build, strict_) ==
    LET parts == split(build)
    IN  collect([i \in 1..Len(parts) |-> parse_build_identifier(parts[i], strict_)])

\* Build::parse: a Build is the sequence of its identifiers.
Build_parse(build, strict_) == parse_build(build, strict_)

Build_fmt(b) == join(b)

Build_eq(x, y) == x = y

---------------------------------------------------------------------------
(* version::semantic::compare *)

\* cmp_pre_release comparing every pair of identifiers as text.
cmp_pre_release_lexical(x, y) == str_cmp(x, y)

cmp_pre_release(x, y) ==
    The({ IF vx.ok /\ vy.ok THEN i64_cmp(vx.val, vy.val)
          ELSE IF vx.ok /\ ~vy.ok THEN "Less"
          ELSE IF ~vx.ok /\ vy.ok THEN "Greater"
          ELSE str_cmp(x, y) :
          vx \in {parse_i64(x)}, vy \in {parse_i64(y)} })

\* PreRelease::partial_cmp putting the shorter list first whatever the
\* identifiers are.
PreRelease_partial_cmp_by_length(self, other) ==
    IF Len(self) < Len(other) THEN Some("Less")
    ELSE IF Len(self) > Len(other) THEN Some("Greater")
    ELSE The({ IF decided = {} THEN Some("Equal")
               ELSE Some(cmp_pre_release(
                        self[CHOOSE k \in decided : \A j \in decided : k <= j],
                        other[CHOOSE k \in decided : \A j \in decided : k <= j])) :
               decided \in {{i \in 1..Len(self) :
                               cmp_pre_release(self[i], other[i]) # "Equal"}} })

\* PreRelease::partial_cmp answering Less where other has run out of identifiers.
PreRelease_partial_cmp_short_other(self, other) ==
    The({ IF decided # {} THEN
              LET i == CHOOSE k \in decided : \A j \in decided : k <= j
              IN  IF i > Len(other) THEN Some("Less")
                  ELSE Some(cmp_pre_release(self[i], other[i]))
          ELSE IF Len(self) = Len(other) THEN Some("Equal")
          ELSE IF Len(self) < Len(other) THEN Some("Less")
          ELSE Some("Greater") :
          decided \in {{i \in 1..Len(self) :
                          i > Len(other)
                              \/ cmp_pre_release(self[i], other[i]) # "Equal"}} })

(* PartialOrd for PreRelease *)
PreRelease_partial_cmp(self, other) ==
    The({ IF decided # {} THEN
              LET i == CHOOSE k \in decided : \A j \in decided : k <= j
              IN  IF i > Len(other) THEN Some("Greater")
                  ELSE Some(cmp_pre_release(self[i], other[i]))
          ELSE IF Len(self) = Len(other) THEN Some("Equal")
          ELSE IF Len(self) < Len(other) THEN Some("Less")
          ELSE Some("Greater") :
          decided \in {{i \in 1..Len(self) :
                          i > Len(other)
                              \/ cmp_pre_release(self[i], other[i]) # "Equal"}} })

---------------------------------------------------------------------------
(* version::semantic::Version *)

Version(major, minor, patch, pre_release, build) ==
    [major |-> major, minor |-> minor, patch |-> patch,
     pre_release |-> pre_release, build |-> build]

zero == Version(<<0>>, <<0>>, <<0>>, None, None)

new(major, minor, patch) == Version(major, minor, patch, None, None)

\* |c| c == '.',  |c| c == '+',  |c| !c.is_ascii_digit()
IsDot == {"."}
IsPlus == {"+"}
NotAsciiDigit == {c \in Chars : ~is_ascii_digit(c)}

\* pos_dot2 searched from the start of the text instead of after the first '.'.
second_dot_no_skip(ver_, pos_dot1) == unwrap_or(position(ver_, IsDot), 0)

\* pos_dot2: the offset of the second '.' from the character after the first.
second_dot(ver_, pos_dot1) == unwrap_or(position(skip(ver_, pos_dot1 + 1), IsDot), 0)

\* Ok((major, minor, patch, reminder)) or the error.
parse_version_core(ver_, strict_) ==
    LET ver_with_guard == ver_ \o <<" ">>
        pos_dot1 == unwrap_or(position(ver_, IsDot), 0)
        pos_dot2 == second_dot(ver_, pos_dot1)
        InvalidPattern == ParseError("VersionNumber", "InvalidPattern", <<>>)
    IN  IF pos_dot1 = 0 \/ pos_dot2 = 0 THEN InvalidPattern
        ELSE
            LET pos_reminder ==
                    unwrap_or(position(skip(ver_with_guard, pos_dot1 + pos_dot2 + 2),
                                       NotAsciiDigit), 0)
                part_major == substring(ver_, 0, pos_dot1)
                part_minor == substring(ver_, pos_dot1 + 1, pos_dot1 + pos_dot2 + 1)
                part_patch == substring(ver_, pos_dot1 + pos_dot2 + 2,
                                        pos_dot1 + pos_dot2 + 2 + pos_reminder)
            IN  IF 0 < pos_reminder /\ part_major.some /\ part_minor.some /\ part_patch.some
                THEN
                    LET s_major == parse_numeric_identifier(part_major.val, strict_)
                        s_minor == parse_numeric_identifier(part_minor.val, strict_)
                        s_patch == parse_numeric_identifier(part_patch.val, strict_)
                    IN  IF ~s_major.ok THEN s_major
                        ELSE IF ~s_minor.ok THEN s_minor
                        ELSE IF ~s_patch.ok THEN s_patch
                        ELSE
                            LET v_major == parse_u64(s_major.val)
                                v_minor == parse_u64(s_minor.val)
                                v_patch == parse_u64(s_patch.val)
                                s_rem == substring_to_end(
                                             ver_, pos_dot1 + pos_dot2 + 2 + pos_reminder)
                            IN  IF v_major.ok /\ v_minor.ok /\ v_patch.ok THEN
                                    Ok([major |-> v_major.val, minor |-> v_minor.val,
                                        patch |-> v_patch.val, reminder |-> s_rem])
                                ELSE InvalidPattern
                ELSE InvalidPattern

\* The pre-release text taken from the '-' itself.
pre_release_slice_from_hyphen(ver_reminder, p_plus) == substring(ver_reminder, 0, p_plus)

\* The pre-release text of "-<pre-release>+<build>": between '-' and '+'.
pre_release_slice(ver_reminder, p_plus) == substring(ver_reminder, 1, p_plus)

\* parse_pre_release_and_build parsing the build of "-<pre-release>+<build>"
\* before its pre-release.
parse_pre_release_and_build_build_first(ver_reminder, strict_) ==
    LET pos_plus == position(ver_reminder, IsPlus)
        first_char == nth(ver_reminder, 0)
    IN  IF first_char = Some("-") /\ pos_plus.some THEN
            LET v_pre_release == pre_release_slice(ver_reminder, pos_plus.val)
                v_build == substring_to_end(ver_reminder, pos_plus.val + 1)
            IN  IF v_pre_release.some /\ v_build.some THEN
                    The({ IF ~b.ok THEN b
                          ELSE IF ~p.ok THEN p
                          ELSE Ok([pre_release |-> Some(p.val), build |-> Some(b.val)]) :
                          p \in {PreRelease_parse(v_pre_release.val, strict_)},
                          b \in {Build_parse(v_build.val, strict_)} })
                ELSE ParseError("PrereleaseOrBuild", "InvalidPattern", <<>>)
        ELSE IF first_char = Some("-") /\ ~pos_plus.some THEN
            LET v_pre_release == substring_to_end(ver_reminder, 1)
            IN  IF v_pre_release.some THEN
                    The({ IF ~p.ok THEN p
                          ELSE Ok([pre_release |-> Some(p.val), build |-> None]) :
                          p \in {PreRelease_parse(v_pre_release.val, strict_)} })
                ELSE ParseError("PreRelease", "InvalidPattern", <<>>)
        ELSE IF first_char = Some("+") /\ pos_plus.some THEN
            LET v_build == substring_to_end(ver_reminder, pos_plus.val + 1)
            IN  IF v_build.some THEN
                    The({ IF ~b.ok THEN b
                          ELSE Ok([pre_release |-> None, build |-> Some(b.val)]) :
                          b \in {Build_parse(v_build.val, strict_)} })
                ELSE ParseError("Build", "InvalidPattern", <<>>)
        ELSE ParseError("PrereleaseOrBuild", "InvalidPattern", <<>>)

\* Ok((Option<PreRelease>, Option<Build>)) or the error.
parse_pre_release_and_build(ver_reminder, strict_) ==
    LET pos_plus == position(ver_reminder, IsPlus)
        first_char == nth(ver_reminder, 0)
    IN  IF first_char = Some("-") /\ pos_plus.some THEN
            LET v_pre_release == pre_release_slice(ver_reminder, pos_plus.val)
                v_build == substring_to_end(ver_reminder, pos_plus.val + 1)
            IN  IF v_pre_release.some /\ v_build.some THEN
                    The({ IF ~p.ok THEN p
                          ELSE IF ~b.ok THEN b
                          ELSE Ok([pre_release |-> Some(p.val), build |-> Some(b.val)]) :
                          p \in {PreRelease_parse(v_pre_release.val, strict_)},
                          b \in {Build_parse(v_build.val, strict_)} })
                ELSE ParseError("PrereleaseOrBuild", "InvalidPattern", <<>>)
        ELSE IF first_char = Some("-") /\ ~pos_plus.some THEN
            LET v_pre_release == substring_to_end(ver_reminder, 1)
            IN  IF v_pre_release.some THEN
                    The({ IF ~p.ok THEN p
                          ELSE Ok([pre_release |-> Some(p.val), build |-> None]) :
                          p \in {PreRelease_parse(v_pre_release.val, strict_)} })
                ELSE ParseError("PreRelease", "InvalidPattern", <<>>)
        ELSE IF first_char = Some("+") /\ pos_plus.some THEN
            LET v_build == substring_to_end(ver_reminder, pos_plus.val + 1)
            IN  IF v_build.some THEN
                    The({ IF ~b.ok THEN b
                          ELSE Ok([pre_release |-> None, build |-> Some(b.val)]) :
                          b \in {Build_parse(v_build.val, strict_)} })
                ELSE ParseError("Build", "InvalidPattern", <<>>)
        ELSE ParseError("PrereleaseOrBuild", "InvalidPattern", <<>>)

\* Version::parse
parse(ver_, strict_) ==
    The({ IF ~core.ok THEN core
          ELSE IF core.val.reminder.some THEN
              The({ IF ~pb.ok THEN pb
                    ELSE Ok(Version(core.val.major, core.val.minor, core.val.patch,
                                    pb.val.pre_release, pb.val.build)) :
                    pb \in {parse_pre_release_and_build(core.val.reminder.val,
                                                        strict_)} })
          ELSE Ok(Version(core.val.major, core.val.minor, core.val.patch, None, None)) :
          core \in {parse_version_core(ver_, strict_)} })

\* parse_or validating strictly.
parse_or_strict(ver_, major, minor, patch) ==
    The({ IF r.ok THEN r.val ELSE new(major, minor, patch) : r \in {parse(ver_, TRUE)} })

\* parse_or falling back to 0.0.0 whatever the defaults are.
parse_or_ignoring_defaults(ver_, major, minor, patch) ==
    The({ IF r.ok THEN r.val ELSE zero : r \in {parse(ver_, FALSE)} })

parse_or(ver_, major, minor, patch) ==
    The({ IF r.ok THEN r.val ELSE new(major, minor, patch) : r \in {parse(ver_, FALSE)} })

parse_or_zero(ver_) == parse_or(ver_, <<0>>, <<0>>, <<0>>)

\* v is an Option<&str>
package_version(v) == IF ~v.some THEN zero ELSE parse_or_zero(v.val)

\* Display for Version leaving the build out when there is a pre-release.
Version_fmt_without_build(self) ==
    LET core == u64_to_string(self.major) \o <<".">> \o u64_to_string(self.minor)
                    \o <<".">> \o u64_to_string(self.patch)
    IN  IF self.pre_release.some THEN
            core \o <<"-">> \o PreRelease_fmt(self.pre_release.val)
        ELSE IF self.build.some THEN
            core \o <<"+">> \o Build_fmt(self.build.val)
        ELSE core

(* Display for Version *)
Version_fmt(self) ==
    LET core == u64_to_string(self.major) \o <<".">> \o u64_to_string(self.minor)
                    \o <<".">> \o u64_to_string(self.patch)
    IN  IF self.pre_release.some /\ self.build.some THEN
            core \o <<"-">> \o PreRelease_fmt(self.pre_release.val)
                 \o <<"+">> \o Build_fmt(self.build.val)
        ELSE IF self.pre_release.some THEN
            core \o <<"-">> \o PreRelease_fmt(self.pre_release.val)
        ELSE IF self.build.some THEN
            core \o <<"+">> \o Build_fmt(self.build.val)
        ELSE core

\* Version equality that leaves the build out.
Version_eq_ignoring_build(self, other) ==
    /\ self.major = other.major
    /\ self.minor = other.minor
    /\ self.patch = other.patch
    /\ self.pre_release = other.pre_release

(* PartialEq for Version *)
Version_eq(self, other) ==
    /\ self.major = other.major
    /\ self.minor = other.minor
    /\ self.patch = other.patch
    /\ IF self.pre_release.some /\ other.pre_release.some
       THEN PreRelease_eq(self.pre_release.val, other.pre_release.val)
       ELSE self.pre_release.some = other.pre_release.some
    /\ IF self.build.some /\ other.build.some
       THEN Build_eq(self.build.val, other.build.val)
       ELSE self.build.some = other.build.some

\* Version::partial_cmp going on to the build when the pre-releases are equal.
Version_partial_cmp_with_build(self, other) ==
    LET cmp_major == NumCmp(self.major, other.major)
        cmp_minor == NumCmp(self.minor, other.minor)
        cmp_patch == NumCmp(self.patch, other.patch)
        cmp_build ==
            IF self.build.some /\ other.build.some THEN
                PreRelease_partial_cmp(self.build.val, other.build.val)
            ELSE IF self.build.some THEN Some("Greater")
            ELSE IF other.build.some THEN Some("Less")
            ELSE Some("Equal")
    IN  IF cmp_major # "Equal" THEN Some(cmp_major)
        ELSE IF cmp_minor # "Equal" THEN Some(cmp_minor)
        ELSE IF cmp_patch # "Equal" THEN Some(cmp_patch)
        ELSE IF self.pre_release.some /\ other.pre_release.some THEN
            LET cmp_pre == PreRelease_partial_cmp(self.pre_release.val,
                                                  other.pre_release.val)
            IN  IF cmp_pre = Some("Equal") THEN cmp_build ELSE cmp_pre
        ELSE IF self.pre_release.some THEN Some("Less")
        ELSE IF other.pre_release.some THEN Some("Greater")
        ELSE cmp_build

\* Version::partial_cmp consulting patch before minor.
Version_partial_cmp_patch_first(self, other) ==
    LET cmp_major == NumCmp(self.major, other.major)
        cmp_minor == NumCmp(self.minor, other.minor)
        cmp_patch == NumCmp(self.patch, other.patch)
    IN  IF cmp_major # "Equal" THEN Some(cmp_major)
        ELSE IF cmp_patch # "Equal" THEN Some(cmp_patch)
        ELSE IF cmp_minor # "Equal" THEN Some(cmp_minor)
        ELSE IF self.pre_release.some /\ other.pre_release.some THEN
            PreRelease_partial_cmp(self.pre_release.val, other.pre_release.val)
        ELSE IF self.pre_release.some THEN Some("Less")
        ELSE IF other.pre_release.some THEN Some("Greater")
        ELSE Some("Equal")

(* PartialOrd for Version: Some(Ordering) *)
Version_partial_cmp(self, other) ==
    LET cmp_major == NumCmp(self.major, other.major)
        cmp_minor == NumCmp(self.minor, other.minor)
        cmp_patch == NumCmp(self.patch, other.patch)
    IN  IF cmp_major # "Equal" THEN Some(cmp_major)
        ELSE IF cmp_minor # "Equal" THEN Some(cmp_minor)
        ELSE IF cmp_patch # "Equal" THEN Some(cmp_patch)
        ELSE IF self.pre_release.some /\ other.pre_release.some THEN
            PreRelease_partial_cmp(self.pre_release.val, other.pre_release.val)
        ELSE IF self.pre_release.some THEN Some("Less")
        ELSE IF other.pre_release.some THEN Some("Greater")
        ELSE Some("Equal")

---------------------------------------------------------------------------
(* Inputs *)

MaxRaw == 5      \* longest text of RawTexts
MaxRem == 3      \* longest remainder of TailTexts
MaxIds == 2      \* most identifiers in a pre-release or build of PartTexts

\* All texts of at most n characters over the alphabet.
TextsUpTo(alphabet, n) == UNION {[1..k -> alphabet] : k \in 0..n}

\* parts[1] sep parts[2] sep ... parts[n]
RECURSIVE Concat(_, _)
Concat(parts, sep) ==
    IF Len(parts) = 0 THEN <<>>
    ELSE IF Len(parts) = 1 THEN parts[1]
    ELSE parts[1] \o sep \o Concat(Tail(parts), sep)

NoText == None

\* Every short text over the characters of a version core.
RawTexts == TextsUpTo({".", "0", "1", "a", "-"}, MaxRaw)

U64MaxText == <<"1", "8", "4", "4", "6", "7", "4", "4", "0", "7",
                "3", "7", "0", "9", "5", "5", "1", "6", "1", "5">>
U64OverText == <<"1", "8", "4", "4", "6", "7", "4", "4", "0", "7",
                 "3", "7", "0", "9", "5", "5", "1", "6", "1", "6">>

\* Version cores whose three components range over numerals with and without
\* leading zeros, at and over the u64 range, and a non-numeral.
CoreNumbers ==
    {<<"0">>, <<"7">>, <<"0", "0">>, <<"0", "1">>, <<"1", "0">>,
     U64MaxText, U64OverText, <<"1", "a">>}
CoreTexts ==
    {Concat(<<mj, mn, pt>>, <<".">>) \o rem :
        mj \in CoreNumbers, mn \in CoreNumbers, pt \in CoreNumbers,
        rem \in {<<>>, <<"-", "a", "+", "b">>, <<"-", "_", "+", "_">>}}

\* A valid core followed by every short remainder.
TailTexts ==
    {<<"1", ".", "0", ".", "0">> \o rem :
        rem \in TextsUpTo({"-", "+", ".", "0", "1", "a", "_"}, MaxRem)}

\* A valid core followed by dot-separated identifier lists.
PartIds ==
    {<<>>, <<"0">>, <<"0", "1">>, <<"a">>, <<"-">>, <<"1", "a">>, <<"a", "_">>,
     <<"U+00E9">>}
PartLists == {Concat(ids, <<".">>) : ids \in UNION {[1..k -> PartIds] : k \in 1..MaxIds}}
PartTexts ==
    LET core == <<"1", ".", "2", ".", "3">>
    IN  {core \o <<"-">> \o p : p \in PartLists}
        \cup {core \o <<"+">> \o b : b \in PartLists}
        \cup {core \o <<"-">> \o p \o <<"+">> \o b :
                p \in PartLists, b \in {<<"b">>, <<"0", "0", "1">>, <<"a", ".", "_">>}}
        \cup {core \o <<"-">> \o p \o <<"+">> \o b :
                p \in {<<"a">>, <<"0", "1">>}, b \in PartLists}

Texts == RawTexts \cup CoreTexts \cup TailTexts \cup PartTexts

\* Default (major, minor, patch) triples handed to parse_or.
Defaults == {<<<<0>>, <<0>>, <<0>>>>, <<<<1>>, <<2>>, <<3>>>>}

---------------------------------------------------------------------------
(* Parsing, formatting and recovery of one text *)

Idle == <<>>

InitText ==
    /\ arg_text = Idle /\ arg_start = Idle /\ arg_finish = Idle
    /\ tokens = Idle /\ offset = Idle

InitCompare ==
    /\ ta = Idle /\ tb = Idle /\ tc = Idle
    /\ va = Idle /\ vb = Idle /\ vc = Idle
    /\ ord = Idle

Init ==
    /\ ver \in {Some(t) : t \in Texts} \cup {NoText}
    /\ strict = FALSE
    /\ pc = "idle"
    /\ res = Idle
    /\ dflt = Idle
    /\ out = Idle
    /\ res2 = Idle
    /\ InitCompare
    /\ InitText

compareVars == <<ta, tb, tc, va, vb, vc, ord>>

\* Version::parse(ver, s)
Parse(s) ==
    /\ pc = "idle"
    /\ ver.some
    /\ strict' = s
    /\ res' = parse(ver.val, s)
    /\ pc' = "parsed"
    /\ UNCHANGED <<ver, dflt, out, res2, compareVars, textVars>>

\* format!("{}", v) of the parsed Version
Format ==
    /\ pc = "parsed"
    /\ res.ok
    /\ out' = Version_fmt(res.val)
    /\ pc' = "formatted"
    /\ UNCHANGED <<ver, strict, res, dflt, res2, compareVars, textVars>>

\* Version::parse(out, true)
Reparse ==
    /\ pc = "formatted"
    /\ res2' = parse(out, TRUE)
    /\ pc' = "reparsed"
    /\ UNCHANGED <<ver, strict, res, dflt, out, compareVars, textVars>>

\* Version::parse_or(ver, major, minor, patch)
ParseOr(d) ==
    /\ pc = "idle"
    /\ ver.some
    /\ dflt' = d
    /\ res' = parse_or(ver.val, d[1], d[2], d[3])
    /\ pc' = "parse_or"
    /\ UNCHANGED <<ver, strict, out, res2, compareVars, textVars>>

\* Version::parse_or_zero(ver)
ParseOrZero ==
    /\ pc = "idle"
    /\ ver.some
    /\ res' = parse_or_zero(ver.val)
    /\ pc' = "parse_or_zero"
    /\ UNCHANGED <<ver, strict, dflt, out, res2, compareVars, textVars>>

\* package_version(ver)
PackageVersion ==
    /\ pc = "idle"
    /\ res' = package_version(ver)
    /\ pc' = "package_version"
    /\ UNCHANGED <<ver, strict, dflt, out, res2, compareVars, textVars>>

Next ==
    \/ \E s \in BOOLEAN : Parse(s)
    \/ Format
    \/ Reparse
    \/ \E d \in Defaults : ParseOr(d)
    \/ ParseOrZero
    \/ PackageVersion

Spec == Init /\ [][Next]_vars

---------------------------------------------------------------------------
(* Comparison of parsed versions *)

MaxCmpIds == 2   \* most identifiers in a pre-release of CmpTexts and OrdTexts

V100 == <<"1", ".", "0", ".", "0">>
Alpha == <<"a", "l", "p", "h", "a">>
Beta == <<"b", "e", "t", "a">>
I64OverText == <<"9", "2", "2", "3", "3", "7", "2", "0", "3", "6",
                 "8", "5", "4", "7", "7", "5", "8", "0", "8">>
TenPow19Text == <<"1", "0", "0", "0", "0", "0", "0", "0", "0", "0",
                  "0", "0", "0", "0", "0", "0", "0", "0", "0", "0">>

\* 1.0.0-alpha < 1.0.0-alpha.1 < 1.0.0-alpha.beta < 1.0.0-beta < 1.0.0-beta.2
\*   < 1.0.0-beta.11 < 1.0.0-rc.1 < 1.0.0
Chain ==
    <<V100 \o <<"-">> \o Alpha,
      V100 \o <<"-">> \o Alpha \o <<".", "1">>,
      V100 \o <<"-">> \o Alpha \o <<".">> \o Beta,
      V100 \o <<"-">> \o Beta,
      V100 \o <<"-">> \o Beta \o <<".", "2">>,
      V100 \o <<"-">> \o Beta \o <<".", "1", "1">>,
      V100 \o <<"-", "r", "c", ".", "1">>,
      V100>>

\* The identifiers compared: numerals, numerals with a leading zero, beyond the
\* i64 range, hyphen-led digit strings, letters.
CmpIds ==
    {<<"0">>, <<"1">>, <<"2">>, <<"1", "1">>, <<"0", "1">>,
     <<"-", "1">>, <<"-", "2">>, <<"-", "0", "1">>, <<"-">>, <<"a">>, <<"B">>,
     I64OverText, TenPow19Text}
HeadIds == {<<"a">>, <<"1">>}

\* Identifier lists: heads from `heads`, the last identifier from `ids`.
IdLists(heads, ids, n) ==
    {Concat(h, <<".">>) \o (IF Len(h) = 0 THEN <<>> ELSE <<".">>) \o id :
        h \in UNION {[1..k -> heads] : k \in 0..(n - 1)}, id \in ids}

CmpCores ==
    {Concat(<<mj, mn, pt>>, <<".">>) :
        mj \in {<<"1">>, <<"2">>, <<"1", "0">>}, mn \in {<<"0">>, <<"1">>},
        pt \in {<<"0">>, <<"2">>}}

CmpTexts ==
    Range(Chain)
    \cup {core \o rem : core \in CmpCores,
                        rem \in {<<>>, <<"-", "a">>, <<"-", "a", "+", "b">>, <<"+", "b">>}}
    \cup {V100 \o <<"-">> \o p \o b :
            p \in IdLists(HeadIds, CmpIds, MaxCmpIds),
            b \in {<<>>, <<"+", "b">>, <<"+", "0", "1", ".", "c">>}}

OrdIds ==
    {<<"1">>, <<"2">>, <<"0", "1">>, <<"-", "1">>, <<"-", "0", "1">>, <<"-">>, <<"a">>,
     I64OverText}
OrdTexts ==
    {V100, V100 \o <<"+", "b">>, <<"1", ".", "0", ".", "1">>, <<"1", ".", "1", ".", "0">>,
     <<"2", ".", "0", ".", "0", "-", "a">>, <<"1", "0", ".", "0", ".", "0">>}
    \cup {V100 \o <<"-">> \o p : p \in IdLists({<<"a">>}, OrdIds, MaxCmpIds)}

InitParse ==
    /\ ver = NoText
    /\ res = Idle /\ dflt = Idle /\ out = Idle /\ res2 = Idle

parseVars == <<ver, res, dflt, out, res2>>

InitCmp ==
    /\ ta \in CmpTexts /\ tb \in CmpTexts /\ tc = Idle
    /\ va = Idle /\ vb = Idle /\ vc = Idle
    /\ ord = Idle
    /\ strict = FALSE
    /\ pc = "idle"
    /\ InitParse
    /\ InitText

\* Version::parse(ta, s), Version::parse(tb, s)
ParsePair(s) ==
    /\ pc = "idle"
    /\ strict' = s
    /\ va' = parse(ta, s)
    /\ vb' = parse(tb, s)
    /\ pc' = "parsed"
    /\ UNCHANGED <<ta, tb, tc, vc, ord, parseVars, textVars>>

\* a.partial_cmp(&b), b.partial_cmp(&a), a == b  on the unwrapped versions
ComparePair ==
    /\ pc = "parsed"
    /\ va.ok /\ vb.ok
    /\ ord' = [ab |-> Version_partial_cmp(va.val, vb.val),
               ba |-> Version_partial_cmp(vb.val, va.val),
               eq |-> Version_eq(va.val, vb.val)]
    /\ pc' = "compared"
    /\ UNCHANGED <<ta, tb, tc, va, vb, vc, strict, parseVars, textVars>>

NextCmp ==
    \/ \E s \in BOOLEAN : ParsePair(s)
    \/ ComparePair

SpecCmp == InitCmp /\ [][NextCmp]_vars

InitOrd ==
    /\ ta \in OrdTexts /\ tb \in OrdTexts /\ tc \in OrdTexts
    /\ va = Idle /\ vb = Idle /\ vc = Idle
    /\ ord = Idle
    /\ strict = FALSE
    /\ pc = "idle"
    /\ InitParse
    /\ InitText

\* Version::parse of the three texts
ParseTriple(s) ==
    /\ pc = "idle"
    /\ strict' = s
    /\ va' = parse(ta, s)
    /\ vb' = parse(tb, s)
    /\ vc' = parse(tc, s)
    /\ pc' = "parsed"
    /\ UNCHANGED <<ta, tb, tc, ord, parseVars, textVars>>

\* partial_cmp on every ordered pair of the unwrapped versions
CompareTriple ==
    /\ pc = "parsed"
    /\ va.ok /\ vb.ok /\ vc.ok
    /\ ord' = [ab |-> Version_partial_cmp(va.val, vb.val),
               ba |-> Version_partial_cmp(vb.val, va.val),
               bc |-> Version_partial_cmp(vb.val, vc.val),
               ac |-> Version_partial_cmp(va.val, vc.val)]
    /\ pc' = "compared"
    /\ UNCHANGED <<ta, tb, tc, va, vb, vc, strict, parseVars, textVars>>

NextOrd ==
    \/ \E s \in BOOLEAN : ParseTriple(s)
    \/ CompareTriple

SpecOrd == InitOrd /\ [][NextOrd]_vars

---------------------------------------------------------------------------
(* The string helpers and the identifier validators on their own *)

MaxText == 3     \* longest text handed to a helper or validator

HelperTexts == TextsUpTo({"0", "1", "a", "A", "-", "_", "U+00E9"}, MaxText)

InitHelper ==
    /\ arg_text \in HelperTexts
    /\ arg_start = Idle /\ arg_finish = Idle
    /\ tokens = Idle /\ offset = Idle
    /\ strict = FALSE
    /\ pc = "idle"
    /\ InitParse
    /\ InitCompare

\* arg_text.substring(s, f)
Substring(s, f) ==
    /\ pc = "idle"
    /\ arg_start' = s
    /\ arg_finish' = f
    /\ res' = substring(arg_text, s, f)
    /\ pc' = "substring"
    /\ UNCHANGED <<ver, strict, dflt, out, res2, compareVars, arg_text, tokens, offset>>

\* arg_text.substring_to_end(s)
SubstringToEnd(s) ==
    /\ pc = "idle"
    /\ arg_start' = s
    /\ res' = substring_to_end(arg_text, s)
    /\ pc' = "substring_to_end"
    /\ UNCHANGED <<ver, strict, dflt, out, res2, compareVars, arg_text, arg_finish,
                   tokens, offset>>

\* parse_numeric_identifier(arg_text, st)
NumericIdentifier(st) ==
    /\ pc = "idle"
    /\ strict' = st
    /\ res' = parse_numeric_identifier(arg_text, st)
    /\ pc' = "numeric_identifier"
    /\ UNCHANGED <<ver, dflt, out, res2, compareVars, textVars>>

\* parse_alphanumeric_identifier(arg_text, st)
AlphanumericIdentifier(st) ==
    /\ pc = "idle"
    /\ strict' = st
    /\ res' = parse_alphanumeric_identifier(arg_text, st)
    /\ pc' = "alphanumeric_identifier"
    /\ UNCHANGED <<ver, dflt, out, res2, compareVars, textVars>>

\* PreRelease::parse_pre_release_identifier(arg_text, st)
PreReleaseIdentifier(st) ==
    /\ pc = "idle"
    /\ strict' = st
    /\ res' = parse_pre_release_identifier(arg_text, st)
    /\ pc' = "pre_release_identifier"
    /\ UNCHANGED <<ver, dflt, out, res2, compareVars, textVars>>

NextHelper ==
    \/ \E s \in 0..(MaxText + 1) : \E f \in 0..(MaxText + 1) : Substring(s, f)
    \/ \E s \in 0..(MaxText + 1) : SubstringToEnd(s)
    \/ \E st \in BOOLEAN : NumericIdentifier(st)
    \/ \E st \in BOOLEAN : AlphanumericIdentifier(st)
    \/ \E st \in BOOLEAN : PreReleaseIdentifier(st)

SpecHelper == InitHelper /\ [][NextHelper]_vars

--------------------------------------------------------------------------------------------------------------------------------------------------
(* The tokenizer, one step of its loop at a time *)

MaxTok == 4

TokenTexts == TextsUpTo({"A", "b", "1", " ", "U+00E9"}, MaxTok)

InitTok ==
    /\ arg_text = Idle /\ arg_start = Idle /\ arg_finish = Idle
    /\ tokens = <<>> /\ offset = 0
    /\ strict = FALSE
    /\ pc = "idle"
    /\ InitParse
    /\ InitCompare

\* text.tokenize_ascii_alpha_num(), up to the loop
Tokenize(text) ==
    /\ pc = "idle"
    /\ arg_text' = text
    /\ tokens' = <<>>
    /\ offset' = 0
    /\ pc' = "tokenizing"
    /\ UNCHANGED <<arg_start, arg_finish, strict, parseVars, compareVars>>

\* one iteration that pushes a token
PushToken ==
    /\ pc = "tokenizing"
    /\ \E reminder \in {substring_to_end(arg_text, offset)} :
          /\ reminder.some
          /\ \E t \in {next_alpha_num_token(reminder.val)} :
                /\ t.some
                /\ tokens' = Append(tokens, t.val.token)
                /\ offset' = offset + t.val.finish
    /\ UNCHANGED <<arg_text, arg_start, arg_finish, strict, pc, parseVars, compareVars>>

\* the end of the loop, at the end of the text or with no token left
ReturnTokens ==
    /\ pc = "tokenizing"
    /\ \E reminder \in {substring_to_end(arg_text, offset)} :
          IF reminder.some THEN ~next_alpha_num_token(reminder.val).some ELSE TRUE
    /\ pc' = "tokenized"
    /\ UNCHANGED <<arg_text, arg_start, arg_finish, tokens, offset, strict,
                   parseVars, compareVars>>

NextTok ==
    \/ \E text \in TokenTexts : Tokenize(text)
    \/ PushToken
    \/ ReturnTokens

\* Once called, the loop runs in the caller's thread, which takes its next
\* step as long as there is one.
SpecTok == InitTok /\ [][NextTok]_vars /\ WF_vars(PushToken \/ ReturnTokens)

----
(* Claims *)

\* The value of a short numeral as an integer.
RECURSIVE NumeralValue(_)
NumeralValue(n) ==
    IF Len(n) = 0 THEN 0 ELSE 10 * NumeralValue(SubSeq(n, 1, Len(n) - 1)) + n[Len(n)]

IntCmp(x, y) == IF x < y THEN "Less" ELSE IF x > y THEN "Greater" ELSE "Equal"

SameCore(a, b) == a.major = b.major /\ a.minor = b.minor /\ a.patch = b.patch

\* C1: strictly parsed, every earlier version of the chain 1.0.0-alpha,
\* 1.0.0-alpha.1, 1.0.0-alpha.beta, 1.0.0-beta, 1.0.0-beta.2, 1.0.0-beta.11,
\* 1.0.0-rc.1, 1.0.0 compares Less than every later one, and the later one
\* compares Greater than the earlier one.
C1_ChainOrdered ==
    (pc = "compared" /\ strict) =>
        \A i \in 1..Len(Chain) : \A j \in (i + 1)..Len(Chain) :
            (ta = Chain[i] /\ tb = Chain[j]) =>
                (ord.ab = Some("Less") /\ ord.ba = Some("Greater"))

C1_Witness ==
    /\ pc = "compared" /\ strict
    /\ ta = Chain[5] /\ tb = Chain[6]
    /\ ord.ab = Some("Less")

\* C2: two parsed versions with the same major, minor, patch and pre-release
\* compare Equal whatever their builds are.
C2_BuildIgnored ==
    (pc = "compared" /\ SameCore(va.val, vb.val)
        /\ va.val.pre_release = vb.val.pre_release) =>
            (ord.ab = Some("Equal") /\ ord.ba = Some("Equal"))

C2_Witness ==
    /\ pc = "compared"
    /\ SameCore(va.val, vb.val)
    /\ va.val.pre_release.some /\ va.val.pre_release = vb.val.pre_release
    /\ va.val.build.some /\ ~vb.val.build.some
    /\ ord.ab = Some("Equal")

C2_WitnessTwoBuilds ==
    /\ pc = "compared"
    /\ SameCore(va.val, vb.val)
    /\ va.val.pre_release = vb.val.pre_release
    /\ va.val.build.some /\ vb.val.build.some /\ va.val.build # vb.val.build

\* C3: compare is lexicographic over (major, minor, patch); with all three
\* equal a version without pre-release is Greater than one with a pre-release,
\* and two versions without pre-release are Equal.
C3_CoreLexicographic ==
    pc = "compared" =>
        LET a == va.val
            b == vb.val
            mj == IntCmp(NumeralValue(a.major), NumeralValue(b.major))
            mn == IntCmp(NumeralValue(a.minor), NumeralValue(b.minor))
            pt == IntCmp(NumeralValue(a.patch), NumeralValue(b.patch))
        IN  /\ mj # "Equal" => ord.ab = Some(mj)
            /\ (mj = "Equal" /\ mn # "Equal") => ord.ab = Some(mn)
            /\ (mj = "Equal" /\ mn = "Equal" /\ pt # "Equal") => ord.ab = Some(pt)
            /\ (mj = "Equal" /\ mn = "Equal" /\ pt = "Equal") =>
                /\ (~a.pre_release.some /\ b.pre_release.some) => ord.ab = Some("Greater")
                /\ (a.pre_release.some /\ ~b.pre_release.some) => ord.ab = Some("Less")
                /\ (~a.pre_release.some /\ ~b.pre_release.some) => ord.ab = Some("Equal")

\* major decides against minor and patch: 2.0.0 against 1.1.2-a
C3_Witness ==
    /\ pc = "compared"
    /\ NumeralValue(va.val.major) > NumeralValue(vb.val.major)
    /\ NumeralValue(va.val.minor) < NumeralValue(vb.val.minor)
    /\ ~va.val.pre_release.some /\ vb.val.pre_release.some
    /\ ord.ab = Some("Greater")

C3_WitnessRelease ==
    /\ pc = "compared"
    /\ SameCore(va.val, vb.val)
    /\ ~va.val.pre_release.some /\ vb.val.pre_release.some
    /\ ord.ab = Some("Greater")

\* C4: compare is a total order on precedence: always defined, the reverse
\* when the arguments are swapped, and transitive.
C4_TotalOrder ==
    pc = "compared" =>
        /\ ord.ab.some /\ ord.ba.some /\ ord.bc.some /\ ord.ac.some
        /\ ord.ab.val = reverse(ord.ba.val)
        /\ (ord.ab.val # "Greater" /\ ord.bc.val # "Greater") => ord.ac.val # "Greater"

\* three versions in a strict chain, the outer two differing only from the
\* second identifier on
C4_Witness ==
    /\ pc = "compared"
    /\ ord.ab = Some("Less") /\ ord.bc = Some("Less") /\ ord.ac = Some("Less")
    /\ va.val.pre_release.some /\ vb.val.pre_release.some /\ vc.val.pre_release.some
    /\ Len(vb.val.pre_release.val) = 2

\* C5: a text that parses strictly, formatted and parsed strictly again, gives
\* an equal Version (major, minor, patch, pre-release and build).
C5_RoundTrip ==
    (pc = "reparsed" /\ strict) => (res2.ok /\ Version_eq(res2.val, res.val))

C5_Witness ==
    /\ pc = "reparsed" /\ strict
    /\ res.val.pre_release.some /\ res.val.build.some
    /\ Len(res.val.build.val) = 2
    /\ res2.ok

DotPositions(t) == {i \in 1..Len(t) : t[i] = "."}
Digit(c) == c \in Range(AsciiDigits)
Digits(t) == Len(t) > 0 /\ \A i \in 1..Len(t) : Digit(t[i])

\* t is <digits>.<digits>.<digits>, each within the u64 range, and one of the
\* three has several digits of which the first is '0'.
LeadingZeroCore(t) ==
    \E i \in DotPositions(t) : \E j \in DotPositions(t) :
        /\ i < j /\ DotPositions(t) = {i, j}
        /\ LET parts == <<SubSeq(t, 1, i - 1), SubSeq(t, i + 1, j - 1),
                          SubSeq(t, j + 1, Len(t))>>
           IN  /\ \A k \in 1..3 : Digits(parts[k]) /\ Len(parts[k]) <= 3
               /\ \E k \in 1..3 : Len(parts[k]) > 1 /\ parts[k][1] = "0"

CoreParts(t) ==
    LET i == CHOOSE k \in DotPositions(t) : \A m \in DotPositions(t) : k <= m
        j == CHOOSE k \in DotPositions(t) : \A m \in DotPositions(t) : m <= k
    IN  <<SubSeq(t, 1, i - 1), SubSeq(t, i + 1, j - 1), SubSeq(t, j + 1, Len(t))>>

DigitsValue(t) == NumeralValue([i \in 1..Len(t) |-> IndexOf(AsciiDigits, t[i]) - 1])

\* C6: a version whose major, minor or patch has several digits and starts
\* with '0' fails strictly with part VersionNumber and the leading-zero
\* reason, and parses leniently to the values of the digits.
C6_LeadingZero ==
    (pc = "parsed" /\ LeadingZeroCore(ver.val)) =>
        IF strict THEN
            /\ ~res.ok
            /\ res.part = "VersionNumber"
            /\ res.reason = "NumberIdentifierShouldNotHaveLeadingZero"
        ELSE
            /\ res.ok
            /\ NumeralValue(res.val.major) = DigitsValue(CoreParts(ver.val)[1])
            /\ NumeralValue(res.val.minor) = DigitsValue(CoreParts(ver.val)[2])
            /\ NumeralValue(res.val.patch) = DigitsValue(CoreParts(ver.val)[3])

FewerThanTwoDots(t) == Cardinality(DotPositions(t)) < 2
EmptyMajor(t) == Len(t) > 0 /\ t[1] = "."
EmptyMinor(t) ==
    \E i \in DotPositions(t) :
        /\ \A k \in DotPositions(t) : i <= k
        /\ i + 1 \in DotPositions(t)
MissingPatch(t) ==
    \E i \in DotPositions(t) : \E j \in DotPositions(t) :
        /\ i < j
        /\ \A k \in DotPositions(t) : k = i \/ j <= k
        /\ (j = Len(t) \/ ~Digit(t[j + 1]))
MalformedCore(t) ==
    FewerThanTwoDots(t) \/ EmptyMajor(t) \/ EmptyMinor(t) \/ MissingPatch(t)

\* C7: in both modes a text without two '.', or with an empty major or minor
\* segment, or without a digit right after the second '.', fails with part
\* VersionNumber and reason InvalidPattern.
C7_MalformedCore ==
    (pc = "parsed" /\ MalformedCore(ver.val)) =>
        (~res.ok /\ res.part = "VersionNumber" /\ res.reason = "InvalidPattern")

\* the patch is missing: <digits>.<digits>. followed by a non-digit
C7_Witness ==
    /\ pc = "parsed"
    /\ ~FewerThanTwoDots(ver.val) /\ ~EmptyMajor(ver.val) /\ ~EmptyMinor(ver.val)
    /\ MissingPatch(ver.val)
    /\ Len(ver.val) = 5
    /\ ~res.ok

C7_WitnessOneDot ==
    /\ pc = "parsed" /\ strict
    /\ Cardinality(DotPositions(ver.val)) = 1 /\ ~EmptyMajor(ver.val)
    /\ Len(ver.val) = 5
    /\ ~res.ok

FirstPlus(t) == CHOOSE i \in 1..Len(t) : t[i] = "+" /\ \A j \in 1..(i - 1) : t[j] # "+"
HasPlus(t) == \E i \in 1..Len(t) : t[i] = "+"

\* C8: after a valid core, no remainder gives neither pre-release nor build;
\* "-...+..." gives both, split at the first '+'; "-..." without '+' gives the
\* pre-release only; "+..." gives the build only; any other first character
\* fails with InvalidPattern.
C8_Dispatch ==
    (pc = "parsed" /\ parse_version_core(ver.val, strict).ok) =>
        LET core == parse_version_core(ver.val, strict).val
            rem == core.reminder
            r == rem.val
            ids(t) == split(t)
            valid(t, build) ==
                /\ Len(t) > 0
                /\ IF build THEN Build_parse(t, strict).ok ELSE PreRelease_parse(t, strict).ok
        IN  IF ~rem.some THEN
                res = Ok(Version(core.major, core.minor, core.patch, None, None))
            ELSE IF r[1] = "-" /\ HasPlus(r) THEN
                LET pre == SubSeq(r, 2, FirstPlus(r) - 1)
                    bld == SubSeq(r, FirstPlus(r) + 1, Len(r))
                IN  IF valid(pre, FALSE) /\ valid(bld, TRUE) THEN
                        res = Ok(Version(core.major, core.minor, core.patch,
                                         Some(ids(pre)), Some(ids(bld))))
                    ELSE ~res.ok
            ELSE IF r[1] = "-" THEN
                LET pre == SubSeq(r, 2, Len(r))
                IN  IF valid(pre, FALSE) THEN
                        res = Ok(Version(core.major, core.minor, core.patch,
                                         Some(ids(pre)), None))
                    ELSE ~res.ok
            ELSE IF r[1] = "+" THEN
                LET bld == SubSeq(r, 2, Len(r))
                IN  IF valid(bld, TRUE) THEN
                        res = Ok(Version(core.major, core.minor, core.patch,
                                         None, Some(ids(bld))))
                    ELSE ~res.ok
            ELSE ~res.ok /\ res.reason = "InvalidPattern"

C8_Witness ==
    /\ pc = "parsed" /\ res.ok
    /\ res.val.pre_release.some /\ res.val.build.some
    /\ Len(res.val.pre_release.val) = 2
    /\ res.val.build.val = <<<<"0", "0", "1">>>>

C8_WitnessOther ==
    /\ pc = "parsed" /\ ~res.ok
    /\ parse_version_core(ver.val, strict).ok
    /\ parse_version_core(ver.val, strict).val.reminder.some
    /\ parse_version_core(ver.val, strict).val.reminder.val[1] \notin {"-", "+"}

IsU64(n) ==
    /\ Len(n) >= 1 /\ \A i \in 1..Len(n) : n[i] \in 0..9
    /\ (Len(n) > 1 => n[1] # 0)
    /\ NumCmp(n, U64_MAX) # "Greater"
IsVersion(v) ==
    /\ DOMAIN v = {"major", "minor", "patch", "pre_release", "build"}
    /\ IsU64(v.major) /\ IsU64(v.minor) /\ IsU64(v.patch)

HasNonAscii(t) == \E i \in 1..Len(t) : t[i] \in NonAscii

\* The text cannot be a version: it is empty, has a non-ASCII character or
\* has a malformed core.
Unparsable(t) == Len(t) = 0 \/ HasNonAscii(t) \/ MalformedCore(t)

\* C9: parse_or, parse_or_zero and package_version always return a Version;
\* when the text does not parse the result is new(defaults), 0.0.0 for
\* parse_or_zero and package_version, also for an absent text.
C9_Recovery ==
    /\ pc = "parse_or" =>
        /\ IsVersion(res)
        /\ (Unparsable(ver.val) \/ ~parse(ver.val, FALSE).ok) =>
                res = Version(dflt[1], dflt[2], dflt[3], None, None)
    /\ pc = "parse_or_zero" =>
        /\ IsVersion(res)
        /\ (Unparsable(ver.val) \/ ~parse(ver.val, FALSE).ok) =>
                res = Version(<<0>>, <<0>>, <<0>>, None, None)
    /\ pc = "package_version" =>
        /\ IsVersion(res)
        /\ (~ver.some \/ Unparsable(ver.val) \/ ~parse(ver.val, FALSE).ok) =>
                res = Version(<<0>>, <<0>>, <<0>>, None, None)

C9_Witness ==
    /\ pc = "parse_or"
    /\ HasNonAscii(ver.val)
    /\ dflt = <<<<1>>, <<2>>, <<3>>>>
    /\ res = Version(<<1>>, <<2>>, <<3>>, None, None)

C9_WitnessAbsent ==
    /\ pc = "package_version" /\ ~ver.some
    /\ res = Version(<<0>>, <<0>>, <<0>>, None, None)

\* The first position at which two identifier lists differ as texts, if both
\* lists have it.
FirstDifference(x, y) ==
    LET m == IF Len(x) < Len(y) THEN Len(x) ELSE Len(y)
        diff == {i \in 1..m : x[i] # y[i]}
    IN  IF diff = {} THEN None ELSE Some(CHOOSE k \in diff : \A j \in diff : k <= j)

OnlyDigits(id) == Len(id) > 0 /\ \A i \in 1..Len(id) : id[i] \in Range(AsciiDigits)
HasNonDigit(id) ==
    /\ \E i \in 1..Len(id) : id[i] \in Range(AsciiLower) \cup Range(AsciiUpper) \cup {"-"}
    /\ \A i \in 1..Len(id) :
          id[i] \in Range(AsciiDigits) \cup Range(AsciiLower) \cup Range(AsciiUpper) \cup {"-"}

\* C10: where the pre-releases of two strictly parsed versions of the same
\* core first differ, if one identifier is only digits and the other has a
\* letter or hyphen, the version with the digits-only identifier is Less.
C10_NumericBelowAlphanumeric ==
    (pc = "compared" /\ strict /\ SameCore(va.val, vb.val)
        /\ va.val.pre_release.some /\ vb.val.pre_release.some) =>
        LET x == va.val.pre_release.val
            y == vb.val.pre_release.val
            d == FirstDifference(x, y)
        IN  d.some =>
                /\ (OnlyDigits(x[d.val]) /\ HasNonDigit(y[d.val])) => ord.ab = Some("Less")
                /\ (HasNonDigit(x[d.val]) /\ OnlyDigits(y[d.val])) => ord.ab = Some("Greater")

\* Both versions compared have the same core and a pre-release.
BothPreRelease ==
    /\ pc = "compared"
    /\ SameCore(va.val, vb.val)
    /\ va.val.pre_release.some /\ vb.val.pre_release.some

\* C11: where the pre-releases of two parsed versions of the same core first
\* differ, if both identifiers have a letter or hyphen, the versions are
\* ordered as the character codes of the two identifiers are.
C11_AlphanumericLexical ==
    BothPreRelease =>
        LET x == va.val.pre_release.val
            y == vb.val.pre_release.val
            d == FirstDifference(x, y)
        IN  (d.some /\ HasNonDigit(x[d.val]) /\ HasNonDigit(y[d.val])) =>
                ord.ab = Some(str_cmp(x[d.val], y[d.val]))

\* The order of the values of two digits-only identifiers.
DigitsCmp(x, y) == NumCmp(Numeral(x), Numeral(y))

\* C12: where the pre-releases of two parsed versions of the same core first
\* differ, if both identifiers are only digits and their values differ, the
\* versions are ordered as the values are, whatever the number of digits.
C12_NumericByValue ==
    BothPreRelease =>
        LET x == va.val.pre_release.val
            y == vb.val.pre_release.val
            d == FirstDifference(x, y)
        IN  (d.some /\ OnlyDigits(x[d.val]) /\ OnlyDigits(y[d.val])
                /\ DigitsCmp(x[d.val], y[d.val]) # "Equal") =>
                ord.ab = Some(DigitsCmp(x[d.val], y[d.val]))

\* The positions both lists have at which the identifiers compare non-equal.
NonEqualPositions(x, y) ==
    {i \in 1..Len(x) : i <= Len(y) /\ cmp_pre_release(x[i], y[i]) # "Equal"}
Least(S) == CHOOSE k \in S : \A j \in S : k <= j

\* C13: the first position at which the identifiers compare non-equal decides
\* the comparison of two pre-releases; with no such position the shorter list
\* is Less, and lists of the same length are Equal.
C13_FirstNonEqualDecides ==
    BothPreRelease =>
        LET x == va.val.pre_release.val
            y == vb.val.pre_release.val
            ne == NonEqualPositions(x, y)
        IN  IF ne # {} THEN
                ord.ab = Some(cmp_pre_release(x[Least(ne)], y[Least(ne)]))
            ELSE
                /\ Len(x) < Len(y) => (ord.ab = Some("Less") /\ ord.ba = Some("Greater"))
                /\ Len(x) = Len(y) => ord.ab = Some("Equal")

\* a.1 against a.1.<id>: a strict prefix
C13_Witness ==
    /\ BothPreRelease
    /\ NonEqualPositions(va.val.pre_release.val, vb.val.pre_release.val) = {}
    /\ Len(va.val.pre_release.val) = 1 /\ Len(vb.val.pre_release.val) = 2
    /\ ord.ab = Some("Less")

\* a.1 against a.2: decided at the second position
C13_WitnessSecond ==
    /\ BothPreRelease
    /\ Least(NonEqualPositions(va.val.pre_release.val, vb.val.pre_release.val)) = 2
    /\ ord.ab = Some("Less")

\* C14: a == b exactly when major, minor, patch, pre-release and build are all
\* equal, so versions differing only in the build are not equal although they
\* compare Equal; and a == b implies that a and b compare Equal.
C14_StructuralEquality ==
    pc = "compared" =>
        /\ ord.eq <=> (/\ va.val.major = vb.val.major
                       /\ va.val.minor = vb.val.minor
                       /\ va.val.patch = vb.val.patch
                       /\ va.val.pre_release = vb.val.pre_release
                       /\ va.val.build = vb.val.build)
        /\ ord.eq => ord.ab = Some("Equal")

\* 1.0.0-a+b against 1.0.0-a: equal in precedence, not equal
C14_Witness ==
    /\ pc = "compared"
    /\ SameCore(va.val, vb.val)
    /\ va.val.pre_release = vb.val.pre_release
    /\ va.val.build # vb.val.build
    /\ ~ord.eq
    /\ ord.ab = Some("Equal")

C14_WitnessEqual ==
    /\ pc = "compared"
    /\ ord.eq
    /\ va.val.pre_release.some /\ va.val.build.some
    /\ ord.ab = Some("Equal")

\* C15: in both modes every identifier of a parsed pre-release is non-empty: a
\* pre-release text with an empty dot-separated part is rejected.
C15_NoEmptyPreReleaseIdentifier ==
    (pc = "parsed" /\ res.ok /\ res.val.pre_release.some) =>
        \A i \in 1..Len(res.val.pre_release.val) : Len(res.val.pre_release.val[i]) > 0

IdentifierCharacters ==
    Range(AsciiDigits) \cup Range(AsciiLower) \cup Range(AsciiUpper) \cup {"-"}

\* C16: in both modes every identifier of a parsed build is non-empty and made
\* of the characters 0-9, A-Z, a-z and '-': a build text with an empty
\* dot-separated part is rejected.
C16_NoEmptyBuildIdentifier ==
    (pc = "parsed" /\ res.ok /\ res.val.build.some) =>
        \A i \in 1..Len(res.val.build.val) :
            /\ Len(res.val.build.val[i]) > 0
            /\ \A k \in 1..Len(res.val.build.val[i]) :
                  res.val.build.val[i][k] \in IdentifierCharacters

\* The parts of a text with two '.' or more: before the first '.', between the
\* first two, the digits that follow the second, and what is left.
FirstDot(t) == Least(DotPositions(t))
SecondDot(t) == Least(DotPositions(t) \ {FirstDot(t)})
PatchEnd(t) ==
    Least({k \in SecondDot(t)..Len(t) : k = Len(t) \/ ~Digit(t[k + 1])})
MajorText(t) == SubSeq(t, 1, FirstDot(t) - 1)
MinorText(t) == SubSeq(t, FirstDot(t) + 1, SecondDot(t) - 1)
PatchText(t) == SubSeq(t, SecondDot(t) + 1, PatchEnd(t))
RemainderText(t) == SubSeq(t, PatchEnd(t) + 1, Len(t))

NoLeadingZero(n) == Len(n) > 1 => n[1] # "0"

\* <digits>.<digits>.<digits> without leading zeros, then anything.
WellFormedCore(t) ==
    /\ Cardinality(DotPositions(t)) >= 2
    /\ Digits(MajorText(t)) /\ NoLeadingZero(MajorText(t))
    /\ Digits(MinorText(t)) /\ NoLeadingZero(MinorText(t))
    /\ Digits(PatchText(t)) /\ NoLeadingZero(PatchText(t))

ExceedsU64(n) == NumCmp(Numeral(n), U64_MAX) = "Greater"
CoreFitsU64(t) ==
    ~ExceedsU64(MajorText(t)) /\ ~ExceedsU64(MinorText(t)) /\ ~ExceedsU64(PatchText(t))

\* "-", "+", or "-<pre>+" with no '+' in <pre>.
TrailingSeparator(r) ==
    \/ r = <<"-">>
    \/ r = <<"+">>
    \/ /\ Len(r) >= 2 /\ r[1] = "-" /\ r[Len(r)] = "+"
       /\ \A k \in 1..(Len(r) - 1) : r[k] # "+"

\* C17: in both modes a core followed by '-', by '+' or by '-<pre>+' and
\* nothing more fails with reason InvalidPattern.
C17_TrailingSeparator ==
    (pc = "parsed" /\ WellFormedCore(ver.val) /\ CoreFitsU64(ver.val)
        /\ TrailingSeparator(RemainderText(ver.val))) =>
            (~res.ok /\ res.reason = "InvalidPattern")

\* 1.0.0-a+
C17_Witness ==
    /\ pc = "parsed" /\ strict
    /\ WellFormedCore(ver.val)
    /\ RemainderText(ver.val) = <<"-", "a", "+">>
    /\ ~res.ok /\ res.part = "PrereleaseOrBuild"

C17_WitnessPlus ==
    /\ pc = "parsed" /\ ~strict
    /\ WellFormedCore(ver.val)
    /\ RemainderText(ver.val) = <<"+">>
    /\ ~res.ok /\ res.part = "Build"

\* C18: in both modes a core of three digit strings one of which is over
\* 2^64-1 fails with part VersionNumber; values up to 2^64-1 are accepted, and
\* a Version returned has exactly the values of the digits.
C18_Overflow ==
    (pc = "parsed" /\ WellFormedCore(ver.val)) =>
        IF ~CoreFitsU64(ver.val) THEN ~res.ok /\ res.part = "VersionNumber"
        ELSE
            /\ RemainderText(ver.val) = <<>> => res.ok
            /\ res.ok =>
                /\ res.val.major = Numeral(MajorText(ver.val))
                /\ res.val.minor = Numeral(MinorText(ver.val))
                /\ res.val.patch = Numeral(PatchText(ver.val))

\* 0.18446744073709551616.7 and the like
C18_Witness ==
    /\ pc = "parsed" /\ strict
    /\ WellFormedCore(ver.val)
    /\ ~ExceedsU64(MajorText(ver.val)) /\ MinorText(ver.val) = U64OverText
    /\ ~res.ok /\ res.part = "VersionNumber"

C18_WitnessMax ==
    /\ pc = "parsed"
    /\ WellFormedCore(ver.val)
    /\ PatchText(ver.val) = U64MaxText
    /\ res.ok /\ res.val.patch = U64_MAX

Letters(t) ==
    Len(t) > 0 /\ \A i \in 1..Len(t) : t[i] \in Range(AsciiLower) \cup Range(AsciiUpper)

\* The texts before and after the first '+' of a remainder that has one.
BeforePlus(r) == SubSeq(r, 1, FirstPlus(r) - 1)
AfterPlus(r) == SubSeq(r, FirstPlus(r) + 1, Len(r))

\* A core, then nothing or '-' and letters, then '+' and digits only.
DigitsBuild(t) ==
    /\ WellFormedCore(t) /\ CoreFitsU64(t)
    /\ HasPlus(RemainderText(t))
    /\ Digits(AfterPlus(RemainderText(t)))
    /\ \/ BeforePlus(RemainderText(t)) = <<>>
       \/ /\ BeforePlus(RemainderText(t))[1] = "-"
          /\ Letters(Tail(BeforePlus(RemainderText(t))))

\* C19: strictly parsed, a build identifier of digits only is accepted with
\* its leading zeros, is stored as written and is formatted as written:
\* 1.0.0-alpha+001 has the pre-release [alpha] and the build [001] and formats
\* to 1.0.0-alpha+001.
C19_DigitsBuildVerbatim ==
    (strict /\ pc \in {"parsed", "formatted"} /\ DigitsBuild(ver.val)) =>
        /\ res.ok
        /\ res.val.build = Some(<<AfterPlus(RemainderText(ver.val))>>)
        /\ BeforePlus(RemainderText(ver.val)) # <<>> =>
              res.val.pre_release = Some(<<Tail(BeforePlus(RemainderText(ver.val)))>>)
        /\ pc = "formatted" => out = ver.val

\* 1.2.3-a+001 formatted
C19_Witness ==
    /\ strict /\ pc = "formatted"
    /\ DigitsBuild(ver.val)
    /\ AfterPlus(RemainderText(ver.val)) = <<"0", "0", "1">>
    /\ res.val.pre_release = Some(<<<<"a">>>>)
    /\ out = ver.val

\* C20: no digits-only identifier of a strictly parsed pre-release has a
\* leading zero, unless it is "0": 1.0.0-01 and 1.0.0-alpha.00 are rejected.
C20_StrictNoLeadingZero ==
    (pc = "parsed" /\ strict /\ res.ok /\ res.val.pre_release.some) =>
        \A i \in 1..Len(res.val.pre_release.val) :
            OnlyDigits(res.val.pre_release.val[i]) =>
                NoLeadingZero(res.val.pre_release.val[i])

\* 1.0.0-10 is parsed
C20_Witness ==
    /\ pc = "parsed" /\ strict /\ res.ok /\ res.val.pre_release.some
    /\ \E i \in 1..Len(res.val.pre_release.val) :
          /\ OnlyDigits(res.val.pre_release.val[i])
          /\ Len(res.val.pre_release.val[i]) = 2

\* 1.0.0-01 is rejected
C20_WitnessRejected ==
    /\ pc = "parsed" /\ strict /\ ~res.ok
    /\ WellFormedCore(ver.val)
    /\ RemainderText(ver.val) = <<"-", "0", "1">>

\* The codepoints of t at the 0-based indices s .. f - 1.
Codepoints(t, s, f) == [i \in 1..(f - s) |-> t[s + i]]

\* C21: substring counts in codepoints: None when finish <= start or finish is
\* over the number of codepoints, else the codepoints at start .. finish - 1;
\* substring_to_end is None when start is the number of codepoints or more,
\* else the codepoints from start on.
C21_SubstringCodepoints ==
    /\ pc = "substring" =>
          IF arg_finish <= arg_start \/ Len(arg_text) < arg_finish THEN res = None
          ELSE res = Some(Codepoints(arg_text, arg_start, arg_finish))
    /\ pc = "substring_to_end" =>
          IF Len(arg_text) <= arg_start THEN res = None
          ELSE res = Some(Codepoints(arg_text, arg_start, Len(arg_text)))

\* a slice that starts after a two-byte codepoint
C21_Witness ==
    /\ pc = "substring"
    /\ Len(arg_text) = 3 /\ arg_text[1] \in NonAscii
    /\ arg_start = 1 /\ arg_finish = 3
    /\ res = Some(<<arg_text[2], arg_text[3]>>)

C21_WitnessToEnd ==
    /\ pc = "substring_to_end"
    /\ Len(arg_text) = 3 /\ arg_text[2] \in NonAscii
    /\ arg_start = 2
    /\ res = Some(<<arg_text[3]>>)

\* C22: strictly, the alphanumeric validator accepts exactly the non-empty
\* texts of digits, letters and hyphens that have a letter or hyphen at some
\* position, and fails with InvalidPattern on every other text.
C22_StrictAlphanumericGrammar ==
    (pc = "alphanumeric_identifier" /\ strict) =>
        IF HasNonDigit(arg_text) THEN res = Ok(arg_text)
        ELSE ~res.ok /\ res.reason = "InvalidPattern"

StartsWithDigit(t) == Len(t) > 0 /\ Digit(t[1])
HasOtherCharacter(t) == \E i \in 1..Len(t) : t[i] \notin IdentifierCharacters

C23_WitnessLenient ==
    /\ pc = "pre_release_identifier" /\ ~strict
    /\ StartsWithDigit(arg_text) /\ HasNonDigit(arg_text)
    /\ res = Ok(arg_text)

FirstNonDigit(t) == t[Least({i \in 1..Len(t) : ~Digit(t[i])})]

\* C24: strictly, the numeric validator accepts "0" and the texts of digits
\* that start with 1..9; any other non-empty text fails with the leading-zero
\* reason when it starts with '0', else with InvalidChar of its first
\* non-digit character.
C24_StrictNumericGrammar ==
    (pc = "numeric_identifier" /\ strict /\ Len(arg_text) > 0) =>
        IF arg_text = <<"0">> \/ (Digits(arg_text) /\ arg_text[1] # "0")
        THEN res = Ok(arg_text)
        ELSE IF arg_text[1] = "0" THEN
            ~res.ok /\ res.reason = "NumberIdentifierShouldNotHaveLeadingZero"
        ELSE
            /\ ~res.ok /\ res.reason = "InvalidChar"
            /\ res.detail = <<FirstNonDigit(arg_text)>>

\* <digits>.<digits>.<digits> within the u64 range, strictly without leading
\* zeros, then anything.
ValidCore(t, st) ==
    /\ Cardinality(DotPositions(t)) >= 2
    /\ Digits(MajorText(t)) /\ Digits(MinorText(t)) /\ Digits(PatchText(t))
    /\ CoreFitsU64(t)
    /\ st => (/\ NoLeadingZero(MajorText(t)) /\ NoLeadingZero(MinorText(t))
              /\ NoLeadingZero(PatchText(t)))

CoreErrorParts == {"VersionNumber", "NumericIdentifier"}

\* The remainder is -<pre-release>+<build> and neither part is valid.
BothPartsInvalid(r, st) ==
    /\ Len(r) > 0 /\ r[1] = "-" /\ HasPlus(r) /\ FirstPlus(r) > 2 /\ FirstPlus(r) < Len(r)
    /\ ~PreRelease_parse(BeforePlus(Tail(r)), st).ok
    /\ ~Build_parse(AfterPlus(r), st).ok

\* C25: parse returns the error of the first failing part: a core error when
\* the core is invalid, whatever follows it; the pre-release error when the
\* core is valid and the pre-release and the build are both invalid; and an
\* error carries no Version.
C25_FirstErrorInGrammarOrder ==
    pc = "parsed" =>
        /\ ~ValidCore(ver.val, strict) => (~res.ok /\ res.part \in CoreErrorParts)
        /\ (ValidCore(ver.val, strict) /\ BothPartsInvalid(RemainderText(ver.val), strict)) =>
              (~res.ok /\ res.part = "PreRelease")
        /\ ~res.ok => "val" \notin DOMAIN res

\* a valid core, then an invalid pre-release and an invalid build
C25_Witness ==
    /\ pc = "parsed"
    /\ ValidCore(ver.val, strict) /\ BothPartsInvalid(RemainderText(ver.val), strict)
    /\ ~res.ok /\ res.part = "PreRelease"

\* an invalid core before an invalid pre-release and an invalid build
C25_WitnessCore ==
    /\ pc = "parsed" /\ strict
    /\ LeadingZeroCore(SubSeq(ver.val, 1, Len(ver.val) - 4))
    /\ SubSeq(ver.val, Len(ver.val) - 3, Len(ver.val)) = <<"-", "_", "+", "_">>
    /\ ~res.ok /\ res.part = "NumericIdentifier"

\* C26: the format of a Version parsed strictly is, character for character,
\* the text it was parsed from.
C26_StrictLossless ==
    (pc = "formatted" /\ strict) => out = ver.val

\* a text with pre-release and build, and one with an empty build identifier
C26_Witness ==
    /\ pc = "formatted" /\ strict
    /\ res.val.pre_release.some /\ res.val.build.some
    /\ Len(res.val.build.val) = 2
    /\ out = ver.val

C26_WitnessEmptyBuildIdentifier ==
    /\ pc = "formatted" /\ strict
    /\ res.val.build.some /\ \E i \in 1..Len(res.val.build.val) : res.val.build.val[i] = <<>>
    /\ out = ver.val

\* C27: versions that compare Equal have the same major, minor and patch and
\* equal pre-release identifier sequences, in either mode.
C27_EqualOnlyWhenIdentical ==
    (pc = "compared" /\ ord.ab = Some("Equal")) =>
        /\ SameCore(va.val, vb.val)
        /\ va.val.pre_release = vb.val.pre_release

\* C28: parse_or, parse_or_zero and package_version return what the lenient
\* parse returns whenever it succeeds, so a text that only the strict parse
\* rejects gives its version, not the default.
C28_LenientRecovery ==
    /\ (pc \in {"parse_or", "parse_or_zero"} /\ parse(ver.val, FALSE).ok) =>
            res = parse(ver.val, FALSE).val
    /\ (pc = "package_version" /\ ver.some /\ parse(ver.val, FALSE).ok) =>
            res = parse(ver.val, FALSE).val

\* 01.7.0 and the like, rejected strictly, with the defaults 1.2.3
C28_Witness ==
    /\ pc = "parse_or"
    /\ LeadingZeroCore(ver.val)
    /\ ~parse(ver.val, TRUE).ok
    /\ dflt = <<<<1>>, <<2>>, <<3>>>>
    /\ res # Version(<<1>>, <<2>>, <<3>>, None, None)
    /\ res.pre_release = None /\ res.build = None

\* 1.0.0-01
C28_WitnessPreRelease ==
    /\ pc = "parse_or_zero"
    /\ ver.val = <<"1", ".", "0", ".", "0", "-", "0", "1">>
    /\ ~parse(ver.val, TRUE).ok
    /\ res = Version(<<1>>, <<0>>, <<0>>, Some(<<<<"0", "1">>>>), None)

C28_WitnessPackage ==
    /\ pc = "package_version" /\ ver.some
    /\ LeadingZeroCore(ver.val)
    /\ res # Version(<<0>>, <<0>>, <<0>>, None, None)

\* The pre-release text of a remainder -<pre-release> or -<pre-release>+<build>
\* and the build text of a remainder [-<pre-release>]+<build>.
PreReleaseTextOf(r) == IF HasPlus(r) THEN SubSeq(r, 2, FirstPlus(r) - 1) ELSE Tail(r)
BuildTextOf(r) == AfterPlus(r)

\* The dot-separated identifiers of a non-empty text.
IdentifiersOf(t) ==
    LET dots == <<0>> \o [i \in 1..Cardinality(DotPositions(t)) |->
                            Least({d \in DotPositions(t) :
                                Cardinality({e \in DotPositions(t) : e <= d}) = i})]
                     \o <<Len(t) + 1>>
    IN  [i \in 1..(Len(dots) - 1) |-> SubSeq(t, dots[i] + 1, dots[i + 1] - 1)]

InvalidPreReleaseIdentifier(id, st) ==
    \/ id = <<>>
    \/ HasOtherCharacter(id)
    \/ st /\ Digits(id) /\ Len(id) > 1 /\ id[1] = "0"

InvalidBuildIdentifier(id) == id = <<>> \/ HasOtherCharacter(id)

HasInvalidPreRelease(r, st) ==
    /\ Len(r) > 0 /\ r[1] = "-" /\ Len(PreReleaseTextOf(r)) > 0
    /\ HasPlus(r) => FirstPlus(r) < Len(r)
    /\ \E i \in 1..Len(IdentifiersOf(PreReleaseTextOf(r))) :
          InvalidPreReleaseIdentifier(IdentifiersOf(PreReleaseTextOf(r))[i], st)

\* The build has an invalid identifier and the pre-release, if any, has none.
HasInvalidBuild(r, st) ==
    /\ Len(r) > 0 /\ r[1] \in {"-", "+"} /\ HasPlus(r) /\ Len(BuildTextOf(r)) > 0
    /\ r[1] = "-" => (FirstPlus(r) > 2 /\ PreRelease_parse(PreReleaseTextOf(r), st).ok)
    /\ r[1] = "+" => FirstPlus(r) = 1
    /\ \E i \in 1..Len(IdentifiersOf(BuildTextOf(r))) :
          InvalidBuildIdentifier(IdentifiersOf(BuildTextOf(r))[i])

\* C29: after a valid core, a pre-release with an identifier that is empty,
\* has an illegal character or, strictly, has a leading zero makes parse fail
\* with part PreRelease and reason InvalidPattern; a build with an invalid
\* identifier makes it fail with part Build and reason InvalidPattern.
C29_IdentifierErrorNotPropagated ==
    (pc = "parsed" /\ ValidCore(ver.val, strict)) =>
        /\ HasInvalidPreRelease(RemainderText(ver.val), strict) =>
              res = ParseError("PreRelease", "InvalidPattern", <<>>)
        /\ HasInvalidBuild(RemainderText(ver.val), strict) =>
              res = ParseError("Build", "InvalidPattern", <<>>)

\* The characters of all the tokens, in order.
RECURSIVE Flatten(_)
Flatten(ts) == IF Len(ts) = 0 THEN <<>> ELSE ts[1] \o Flatten(Tail(ts))

AlphaNumeric == Range(AsciiUpper) \cup Range(AsciiLower) \cup Range(AsciiDigits)

\* t with the characters other than ASCII letters and digits removed
RECURSIVE OnlyAlphaNumeric(_)
OnlyAlphaNumeric(t) ==
    IF Len(t) = 0 THEN <<>>
    ELSE IF t[1] \in AlphaNumeric THEN <<t[1]>> \o OnlyAlphaNumeric(Tail(t))
    ELSE OnlyAlphaNumeric(Tail(t))

\* [A-Z]*[a-z]*[0-9]*, not empty
TokenPattern(t) ==
    /\ Len(t) > 0
    /\ \E i \in 0..Len(t) : \E j \in i..Len(t) :
          /\ \A k \in 1..i : t[k] \in Range(AsciiUpper)
          /\ \A k \in (i + 1)..j : t[k] \in Range(AsciiLower)
          /\ \A k \in (j + 1)..Len(t) : t[k] \in Range(AsciiDigits)

\* C30: every iteration of the loop of tokenize_ascii_alpha_num that pushes a
\* token advances the offset by at least one character, every token is not
\* empty and matches [A-Z]*[a-z]*[0-9]*, the loop, once entered, ends on every
\* text, and the
\* tokens returned, concatenated, are the text without its characters other
\* than ASCII letters and digits.
C30_TokenizerTerminates ==
    /\ [][pc = "tokenizing" /\ pc' = "tokenizing" => offset' >= offset + 1]_vars
    /\ [](pc \in {"tokenizing", "tokenized"} =>
            \A i \in 1..Len(tokens) : TokenPattern(tokens[i]))
    /\ [](pc = "tokenized" => Flatten(tokens) = OnlyAlphaNumeric(arg_text))
    /\ (pc = "tokenizing") ~> (pc = "tokenized")

\* two tokens around characters that are dropped, one of them not ASCII
C30_Witness ==
    /\ pc = "tokenized"
    /\ Len(arg_text) = 4 /\ arg_text[1] = " " /\ arg_text[3] \in NonAscii
    /\ Len(tokens) = 2
    /\ offset = 4

\* a token of uppercase, lowercase and digit, then a token at the case change
C30_WitnessCaseChange ==
    /\ pc = "tokenized"
    /\ arg_text = <<"A", "b", "1", "A">>
    /\ tokens = <<<<"A", "b", "1">>, <<"A">>>>

=============================================================================
